---- MODULE Spec2Model ----
(***************************************************************************)
(* Model of the signaling client of MrKrazyKoala/rtc:                      *)
(*   src/SignalingClient.cpp   connection lifecycle, event loop, dispatch   *)
(*   src/SignalingProtocol.cpp serialize, deserialize, validate             *)
(*   src/main.cpp              DeviceManager: initialize, run, the handler  *)
(* Two threads exist: the caller thread, which calls the public methods of  *)
(* SignalingClient, and the event loop worker thread, which runs            *)
(* runEventLoop and, inside lws_service, the transport callbacks.           *)
(* Three specifications:                                                    *)
(*   Spec         the caller thread makes any calls in any order            *)
(*   SpecSession  the caller thread is main() driving a DeviceManager       *)
(*   SpecCodec    the message codec taken alone                             *)
(***************************************************************************)
EXTENDS Integers, Sequences, FiniteSets, TLC

\* ------------------------------------------------------------------ bounds
MaxFrames == 2      \* inbound frames the transport delivers in one run
MaxSends == 1       \* sendMessage calls made by the caller thread in one run
MaxMsgLen == 2      \* largest serialized length of an outbound message
MaxHeartbeats == 1  \* heartbeats DeviceManager::run writes in one run

\* size_t is modelled at a reduced width (TLC's integers are 32 bit); every
\* length and write count of the model is far below half of it, so a
\* signed/unsigned comparison has the outcome it has at 32 or 64 bits.
SizeModulus == 2^16

Threads == {"caller", "worker"}

\* ------------------------------------------------- SignalingProtocol.cpp
\* The 14 names stringToSignalingMessageType accepts.
TypeNames ==
    {"REGISTER", "REQUEST", "RESPONSE", "OFFER", "ANSWER", "ICE", "HEARTBEAT",
     "ERROR", "DISCONNECT", "STATUS", "CONFIG_UPDATE", "STREAM_INFO", "LOG",
     "DIAGNOSTICS"}

\* The enumerators of SignalingMessageType that the two conversions name.
MessageTypes ==
    {"SignalingMessageType::REGISTER", "SignalingMessageType::REQUEST",
     "SignalingMessageType::RESPONSE", "SignalingMessageType::OFFER",
     "SignalingMessageType::ANSWER", "SignalingMessageType::ICE",
     "SignalingMessageType::HEARTBEAT", "SignalingMessageType::ERROR",
     "SignalingMessageType::DISCONNECT", "SignalingMessageType::STATUS",
     "SignalingMessageType::CONFIG_UPDATE",
     "SignalingMessageType::STREAM_INFO", "SignalingMessageType::LOG",
     "SignalingMessageType::DIAGNOSTICS"}

\* A cJSON item: k is its kind ("absent" stands for the null pointer, a member
\* that is not there), v the text of a string or number, m the members of an
\* object (a function from member name to item).
NoMembers == [name \in {} |-> ""]
Absent == [k |-> "absent", v |-> "", m |-> NoMembers]
JStr(s) == [k |-> "str", v |-> s, m |-> NoMembers]
JNum(s) == [k |-> "num", v |-> s, m |-> NoMembers]
JNull == [k |-> "null", v |-> "", m |-> NoMembers]
JObj(members) == [k |-> "obj", v |-> "", m |-> members]

\* A frame as cJSON_Parse sees it: json is FALSE for text that does not parse,
\* and the four fields are the members "type", "id", "payload" and "metadata"
\* of the root object.
MkFrame(isJson, t, i, p, md) ==
    [json |-> isJson, type |-> t, id |-> i, payload |-> p, metadata |-> md]

\* cJSON_IsString: false for a null item (an absent member) and for other kinds.
cJSON_IsString(item) == item.k = "str"

\* cJSON_IsObject: false for a null item and for other kinds.
cJSON_IsObject(item) == item.k = "obj"

\* cJSON_GetObjectItemCaseSensitive: the member of that name, or the null
\* pointer when the item has no such member.
cJSON_GetObjectItemCaseSensitive(object, name) ==
    IF name \in DOMAIN object.m THEN object.m[name] ELSE Absent

\* signalingMessageTypeToString: the name of an enumerator, "UNKNOWN" for any
\* other value.
signalingMessageTypeToString(type) ==
    CASE type = "SignalingMessageType::REGISTER" -> "REGISTER"
      [] type = "SignalingMessageType::REQUEST" -> "REQUEST"
      [] type = "SignalingMessageType::RESPONSE" -> "RESPONSE"
      [] type = "SignalingMessageType::OFFER" -> "OFFER"
      [] type = "SignalingMessageType::ANSWER" -> "ANSWER"
      [] type = "SignalingMessageType::ICE" -> "ICE"
      [] type = "SignalingMessageType::HEARTBEAT" -> "HEARTBEAT"
      [] type = "SignalingMessageType::ERROR" -> "ERROR"
      [] type = "SignalingMessageType::DISCONNECT" -> "DISCONNECT"
      [] type = "SignalingMessageType::STATUS" -> "STATUS"
      [] type = "SignalingMessageType::CONFIG_UPDATE" -> "CONFIG_UPDATE"
      [] type = "SignalingMessageType::STREAM_INFO" -> "STREAM_INFO"
      [] type = "SignalingMessageType::LOG" -> "LOG"
      [] type = "SignalingMessageType::DIAGNOSTICS" -> "DIAGNOSTICS"
      [] OTHER -> "UNKNOWN"

\* stringToSignalingMessageType: the enumerator of a known name; throws
\* std::invalid_argument (ok is FALSE) for any other string.
stringToSignalingMessageType(typeStr) ==
    CASE typeStr = "REGISTER" -> [ok |-> TRUE, type |-> "SignalingMessageType::REGISTER"]
      [] typeStr = "REQUEST" -> [ok |-> TRUE, type |-> "SignalingMessageType::REQUEST"]
      [] typeStr = "RESPONSE" -> [ok |-> TRUE, type |-> "SignalingMessageType::RESPONSE"]
      [] typeStr = "OFFER" -> [ok |-> TRUE, type |-> "SignalingMessageType::OFFER"]
      [] typeStr = "ANSWER" -> [ok |-> TRUE, type |-> "SignalingMessageType::ANSWER"]
      [] typeStr = "ICE" -> [ok |-> TRUE, type |-> "SignalingMessageType::ICE"]
      [] typeStr = "HEARTBEAT" -> [ok |-> TRUE, type |-> "SignalingMessageType::HEARTBEAT"]
      [] typeStr = "ERROR" -> [ok |-> TRUE, type |-> "SignalingMessageType::ERROR"]
      [] typeStr = "DISCONNECT" -> [ok |-> TRUE, type |-> "SignalingMessageType::DISCONNECT"]
      [] typeStr = "STATUS" -> [ok |-> TRUE, type |-> "SignalingMessageType::STATUS"]
      [] typeStr = "CONFIG_UPDATE" -> [ok |-> TRUE, type |-> "SignalingMessageType::CONFIG_UPDATE"]
      [] typeStr = "STREAM_INFO" -> [ok |-> TRUE, type |-> "SignalingMessageType::STREAM_INFO"]
      [] typeStr = "LOG" -> [ok |-> TRUE, type |-> "SignalingMessageType::LOG"]
      [] typeStr = "DIAGNOSTICS" -> [ok |-> TRUE, type |-> "SignalingMessageType::DIAGNOSTICS"]
      [] OTHER -> [ok |-> FALSE, type |-> "SignalingMessageType::REGISTER"]

\* std::map<std::string, std::string> without entries.
NoMetadata == [key \in {} |-> ""]

\* The default-constructed message (type REGISTER, empty id, no payload, no
\* metadata).
DefaultMessage ==
    [type |-> "SignalingMessageType::REGISTER", id |-> "", payload |-> Absent,
     metadata |-> NoMetadata]

\* Variant of serialize that never writes the member "metadata".
serialize_NoMetadata(msg) ==
    MkFrame(TRUE,
            JStr(signalingMessageTypeToString(msg.type)),
            JStr(msg.id),
            msg.payload,
            Absent)

\* SignalingMessage::serialize: the root object cJSON_Print writes. "payload" is
\* added when the message has one, "metadata" when the map is not empty.
serialize(msg) ==
    MkFrame(TRUE,
            JStr(signalingMessageTypeToString(msg.type)),
            JStr(msg.id),
            msg.payload,
            IF DOMAIN msg.metadata # {}
            THEN JObj([key \in DOMAIN msg.metadata |-> JStr(msg.metadata[key])])
            ELSE Absent)

\* SignalingMessage::deserialize, lines 205-213: the string members of an object
\* "metadata"; nothing when "metadata" is absent or not an object.
deserializeMetadata(metadataJson) ==
    IF cJSON_IsObject(metadataJson)
    THEN [key \in {name \in DOMAIN metadataJson.m :
                     cJSON_IsString(metadataJson.m[name])}
            |-> metadataJson.m[key].v]
    ELSE NoMetadata

\* Variant of deserialize that takes the empty id when "id" is missing or not
\* a string.
deserialize_DefaultId(frame) ==
    IF ~frame.json
    THEN [ok |-> FALSE, msg |-> DefaultMessage]
    ELSE IF ~cJSON_IsString(frame.type)
    THEN [ok |-> FALSE, msg |-> DefaultMessage]
    ELSE IF ~stringToSignalingMessageType(frame.type.v).ok
    THEN [ok |-> FALSE, msg |-> DefaultMessage]
    ELSE [ok |-> TRUE,
          msg |-> [type |-> stringToSignalingMessageType(frame.type.v).type,
                   id |-> IF cJSON_IsString(frame.id) THEN frame.id.v ELSE "",
                   payload |-> frame.payload,
                   metadata |-> deserializeMetadata(frame.metadata)]]

\* SignalingMessage::deserialize: ok is FALSE where the code throws.
deserialize(frame) ==
    IF ~frame.json
    THEN [ok |-> FALSE, msg |-> DefaultMessage]
    ELSE IF ~cJSON_IsString(frame.type)
    THEN [ok |-> FALSE, msg |-> DefaultMessage]
    ELSE IF ~stringToSignalingMessageType(frame.type.v).ok
    THEN [ok |-> FALSE, msg |-> DefaultMessage]
    ELSE IF ~cJSON_IsString(frame.id)
    THEN [ok |-> FALSE, msg |-> DefaultMessage]
    ELSE [ok |-> TRUE,
          msg |-> [type |-> stringToSignalingMessageType(frame.type.v).type,
                   id |-> frame.id.v,
                   payload |-> frame.payload,
                   metadata |-> deserializeMetadata(frame.metadata)]]

\* Variant of validate that accepts any payload for OFFER, ANSWER and ICE.
validate_AnyPayload(msg) ==
    IF msg.id = "" THEN FALSE
    ELSE CASE msg.type \in {"SignalingMessageType::HEARTBEAT"} -> TRUE
           [] msg.type \in {"SignalingMessageType::REGISTER",
                            "SignalingMessageType::REQUEST",
                            "SignalingMessageType::OFFER",
                            "SignalingMessageType::ANSWER",
                            "SignalingMessageType::ICE",
                            "SignalingMessageType::ERROR"} -> msg.payload # Absent
           [] OTHER -> TRUE

\* SignalingMessage::validate.
validate(msg) ==
    IF msg.id = "" THEN FALSE
    ELSE CASE msg.type = "SignalingMessageType::REGISTER" -> msg.payload # Absent
           [] msg.type = "SignalingMessageType::REQUEST" -> msg.payload # Absent
           [] msg.type \in {"SignalingMessageType::OFFER",
                            "SignalingMessageType::ANSWER"} ->
                IF msg.payload = Absent THEN FALSE
                ELSE LET sdp == cJSON_GetObjectItemCaseSensitive(msg.payload, "sdp")
                     IN  sdp # Absent /\ cJSON_IsString(sdp)
           [] msg.type = "SignalingMessageType::ICE" ->
                IF msg.payload = Absent THEN FALSE
                ELSE LET candidate ==
                           cJSON_GetObjectItemCaseSensitive(msg.payload, "candidate")
                     IN  candidate # Absent /\ cJSON_IsString(candidate)
           [] msg.type = "SignalingMessageType::HEARTBEAT" -> TRUE
           [] msg.type = "SignalingMessageType::ERROR" -> msg.payload # Absent
           [] OTHER -> TRUE

\* Frames: two that decode, one with an unknown type, one without id, one
\* that is not JSON. The transport of the model delivers those of Frames.
FrameReq ==
    MkFrame(TRUE, JStr("REQUEST"), JStr("r1"),
            JObj([name \in {"stream"} |-> JStr("q")]), Absent)
FrameHb == MkFrame(TRUE, JStr("HEARTBEAT"), JStr("s1"), Absent, Absent)
FrameBadType == MkFrame(TRUE, JStr("BOGUS"), JStr("x1"), Absent, Absent)
FrameNoId == MkFrame(TRUE, JStr("STATUS"), Absent, Absent, Absent)
FrameGarbage == MkFrame(FALSE, Absent, Absent, Absent, Absent)
Frames == {FrameReq, FrameHb, FrameBadType}

\* -------------------------------------------------------------- main.cpp
\* Values of messageCallback: empty, or the session's handler
\* (DeviceManager::handleSignalingMessage, bound in the constructor).
Callbacks == {"null", "session"}

DeviceId == "dev"

\* Outbound messages of the caller thread (sendRegistration, sendHeartbeat).
CallerMessages ==
    {[type |-> "SignalingMessageType::REGISTER", id |-> DeviceId, reqId |-> ""],
     [type |-> "SignalingMessageType::HEARTBEAT", id |-> DeviceId, reqId |-> ""]}

\* Variant of handleStreamRequest that sets request_id to the id of the
\* device instead of the id of the REQUEST.
handleStreamRequest_OwnId(msg) ==
    [type |-> "SignalingMessageType::RESPONSE", id |-> DeviceId, reqId |-> DeviceId]

\* handleStreamRequest: the RESPONSE built for a REQUEST.
handleStreamRequest(msg) ==
    [type |-> "SignalingMessageType::RESPONSE", id |-> DeviceId, reqId |-> msg.id]

NoSend == [msg |-> [type |-> "", id |-> "", reqId |-> ""], len |-> 0, n |-> 0, out |-> ""]
NoMsg == [type |-> "", id |-> "", payload |-> Absent, metadata |-> NoMetadata]

\* ------------------------------------------------------------------ state
VARIABLES
    connected,          \* std::atomic<bool> connected
    running,            \* std::atomic<bool> running
    wsi,                \* struct lws* wsi: "null" or "handle"
    joinable,           \* eventLoopThread.joinable()
    messageCallback,    \* MessageCallback messageCallback
    incomingMessages,   \* std::queue<SignalingMessage> incomingMessages
    messageMutex,       \* std::mutex messageMutex: "free" or its holder
    pc,                 \* where each thread is
    cret,               \* where stopEventLoop returns to on the caller thread
    cbArg,              \* the argument of the setMessageCallback call in progress
    snd,                \* the sendMessage call in progress of each thread
    cur,                \* the message processIncomingMessage has decoded
    cbSeen,             \* what the worker read from messageCallback
    tstate,             \* the transport connection: none, connecting, established,
                        \* closed (at the client's request) or lost (the transport
                        \* reported closure or a connection error)
    writeLog,           \* the lws_write calls made, in order
    delivered,          \* the frames handed to LWS_CALLBACK_CLIENT_RECEIVE, in order
    routed,             \* the decoded messages dispatched, each with its destination
    connectBy,          \* the thread that made the latest connection attempt
    session,            \* where main() is in DeviceManager: "none" when the
                        \* caller thread is not a DeviceManager
    g_running,          \* std::atomic<bool> g_running of main.cpp
    codec               \* a message on its way through serialize, deserialize
                        \* and validate (the codec taken alone)

vars == <<connected, running, wsi, joinable, messageCallback, incomingMessages,
          messageMutex, pc, cret, cbArg, snd, cur, cbSeen, tstate, writeLog,
          delivered, routed, connectBy, session, g_running, codec>>

clientVars == <<connected, running, wsi, joinable>>
dispatchVars == <<messageCallback, incomingMessages, messageMutex, cur, cbSeen, routed>>
sendVars == <<snd, writeLog>>
transportVars == <<tstate, delivered, connectBy>>
harnessVars == <<session, g_running, codec>>

\* No message is in the codec.
NoCodec ==
    [stage |-> "none", msg |-> NoMsg,
     wire |-> MkFrame(FALSE, Absent, Absent, Absent, Absent),
     ok |-> FALSE, out |-> NoMsg, valid |-> FALSE]

\* SignalingClient::SignalingClient: the state after construction.
Init ==
    /\ connected = FALSE
    /\ running = FALSE
    /\ wsi = "null"
    /\ joinable = FALSE
    /\ messageCallback = "null"
    /\ incomingMessages = <<>>
    /\ messageMutex = "free"
    /\ pc = [t \in Threads |-> IF t = "caller" THEN "idle" ELSE "none"]
    /\ cret = "idle"
    /\ cbArg = "null"
    /\ snd = [t \in Threads |-> NoSend]
    /\ cur = NoMsg
    /\ cbSeen = "null"
    /\ tstate = "none"
    /\ writeLog = <<>>
    /\ delivered = <<>>
    /\ routed = <<>>
    /\ connectBy = "none"
    /\ session = "none"
    /\ g_running = TRUE
    /\ codec = NoCodec

Goto(t, where) == pc' = [pc EXCEPT ![t] = where]


\* ---------------------------------------------------- caller thread: connect
\* Variant of connect without the test of connected (lines 40-42): every call
\* makes a connection attempt.
connect_NoConnectedTest ==
    /\ pc["caller"] = "idle"
    /\ connectBy' = "caller"
    /\ \E success \in BOOLEAN :
         IF success
         THEN /\ wsi' = "handle"
              /\ tstate' = "connecting"
              /\ Goto("caller", "connect_set")
         ELSE /\ wsi' = "null"
              /\ tstate' = "none"
              /\ Goto("caller", "connect_false")
    /\ UNCHANGED <<harnessVars, connected, running, joinable, delivered,
                   dispatchVars, sendVars, cret, cbArg>>

\* SignalingClient::connect, up to the return of lws_client_connect_via_info.
\* The attempt succeeds (a handle is returned and stored through pwsi) or fails.
connect ==
    /\ pc["caller"] = "idle"
    /\ IF connected
       THEN /\ Goto("caller", "connect_already")
            /\ UNCHANGED <<wsi, tstate, connectBy>>
       ELSE /\ connectBy' = "caller"
            /\ \E success \in BOOLEAN :
                 IF success
                 THEN /\ wsi' = "handle"
                      /\ tstate' = "connecting"
                      /\ Goto("caller", "connect_set")
                 ELSE /\ wsi' = "null"
                      /\ tstate' = "none"
                      /\ Goto("caller", "connect_false")
    /\ UNCHANGED <<harnessVars,
                   connected, running, joinable, delivered, dispatchVars, sendVars,
                   cret, cbArg>>

\* SignalingClient::connect, line 63: connected = true; return true.
connect_setConnected ==
    /\ pc["caller"] = "connect_set"
    /\ connected' = TRUE
    /\ Goto("caller", "connect_true")
    /\ UNCHANGED <<harnessVars,
                   running, wsi, joinable, dispatchVars, sendVars, transportVars,
                   cret, cbArg>>

\* SignalingClient::connect returns to its caller: true from line 41 or line 64,
\* false from line 60.
connect_return ==
    /\ pc["caller"] \in {"connect_already", "connect_true", "connect_false"}
    /\ Goto("caller", "idle")
    /\ UNCHANGED <<harnessVars,
                   clientVars, dispatchVars, sendVars, transportVars, cret, cbArg>>

\* ------------------------------------------- caller thread: the event loop
\* Variant of startEventLoop without the test of running (line 117): every call
\* sets running and assigns a new thread to eventLoopThread.
startEventLoop_NoRunningTest ==
    /\ pc["caller"] = "idle"
    /\ running' = TRUE
    /\ IF joinable
       THEN /\ Goto("caller", "terminated")
            /\ UNCHANGED joinable
       ELSE /\ joinable' = TRUE
            /\ pc' = [pc EXCEPT !["caller"] = "start_ret",
                                !["worker"] = "loop"]
    /\ UNCHANGED <<harnessVars, connected, wsi, dispatchVars, sendVars,
                   transportVars, cret, cbArg>>

\* SignalingClient::startEventLoop. It returns at line 117 when running is
\* set. Assigning to a std::thread that is still joinable calls std::terminate.
startEventLoop ==
    /\ pc["caller"] = "idle"
    /\ IF running
       THEN /\ Goto("caller", "start_ret_running")
            /\ UNCHANGED <<running, joinable>>
       ELSE /\ running' = TRUE
            /\ IF joinable
               THEN /\ Goto("caller", "terminated")
                    /\ UNCHANGED joinable
               ELSE /\ joinable' = TRUE
                    /\ pc' = [pc EXCEPT !["caller"] = "start_ret",
                                        !["worker"] = "loop"]
    /\ UNCHANGED <<harnessVars, connected, wsi, dispatchVars, sendVars,
                   transportVars, cret, cbArg>>

\* SignalingClient::startEventLoop returns to its caller (line 117 or line 124).
startEventLoop_return ==
    /\ pc["caller"] \in {"start_ret_running", "start_ret"}
    /\ Goto("caller", "idle")
    /\ UNCHANGED <<harnessVars,
                   clientVars, dispatchVars, sendVars, transportVars, cret, cbArg>>

\* SignalingClient::stopEventLoop, line 127: running = false.
stopEventLoop ==
    /\ pc["caller"] = "idle"
    /\ running' = FALSE
    /\ cret' = "idle"
    /\ Goto("caller", "stop_join")
    /\ UNCHANGED <<harnessVars,
                   connected, wsi, joinable, dispatchVars, sendVars, transportVars,
                   cbArg>>

\* Variant of stopEventLoop_join that detaches the worker instead of joining
\* it: it returns without waiting for runEventLoop to return.
stopEventLoop_join_NoWait ==
    /\ pc["caller"] = "stop_join"
    /\ joinable' = FALSE
    /\ pc' = [pc EXCEPT !["caller"] = cret]
    /\ cret' = "idle"
    /\ UNCHANGED <<harnessVars,
                   connected, running, wsi, dispatchVars, sendVars, transportVars, cbArg>>

\* SignalingClient::stopEventLoop, lines 128-130: join the worker if joinable,
\* which blocks until runEventLoop has returned; then return to the caller.
stopEventLoop_join ==
    /\ pc["caller"] = "stop_join"
    /\ joinable => pc["worker"] = "done"
    /\ joinable' = FALSE
    /\ pc' = [pc EXCEPT !["caller"] = cret,
                        !["worker"] = IF joinable THEN "none" ELSE @]
    /\ cret' = "idle"
    /\ UNCHANGED <<harnessVars,
                   connected, running, wsi, dispatchVars, sendVars, transportVars, cbArg>>

\* ------------------------------------------------- caller thread: disconnect
\* SignalingClient::disconnect, lines 68-72: return if not connected, else
\* enter stopEventLoop (running = false).
disconnect ==
    /\ pc["caller"] = "idle"
    /\ IF ~connected
       THEN /\ Goto("caller", "disc_ret")
            /\ UNCHANGED <<running, cret>>
       ELSE /\ running' = FALSE
            /\ cret' = "disc_close"
            /\ Goto("caller", "stop_join")
    /\ UNCHANGED <<harnessVars,
                   connected, wsi, joinable, dispatchVars, sendVars, transportVars,
                   cbArg>>

\* SignalingClient::disconnect, lines 74-80: request the close of the handle,
\* forget it, connected = false.
disconnect_close ==
    /\ pc["caller"] = "disc_close"
    /\ IF wsi # "null"
       THEN /\ tstate' = "closed"
            /\ wsi' = "null"
       ELSE UNCHANGED <<tstate, wsi>>
    /\ connected' = FALSE
    /\ Goto("caller", "disc_ret")
    /\ UNCHANGED <<harnessVars,
                   running, joinable, dispatchVars, sendVars, delivered, connectBy,
                   cret, cbArg>>

\* SignalingClient::disconnect returns to its caller (line 69 or line 81).
disconnect_return ==
    /\ pc["caller"] = "disc_ret"
    /\ Goto("caller", "idle")
    /\ UNCHANGED <<harnessVars,
                   clientVars, dispatchVars, sendVars, transportVars, cret, cbArg>>

\* ----------------------------------------- caller thread: setMessageCallback
\* Variant of setMessageCallback without the lock_guard: it does not wait for
\* messageMutex and goes on to the assignment.
setMessageCallback_NoLock(callback) ==
    /\ pc["caller"] = "idle"
    /\ cbArg' = callback
    /\ Goto("caller", "setcb_assign")
    /\ UNCHANGED <<harnessVars,
                   clientVars, dispatchVars, sendVars, transportVars, cret>>

\* SignalingClient::setMessageCallback, line 112: take messageMutex.
setMessageCallback(callback) ==
    /\ pc["caller"] = "idle"
    /\ messageMutex = "free"
    /\ messageMutex' = "caller"
    /\ cbArg' = callback
    /\ Goto("caller", "setcb_assign")
    /\ UNCHANGED <<harnessVars,
                   clientVars, messageCallback, incomingMessages, cur, cbSeen, routed,
                   sendVars, transportVars, cret>>

\* Variant of setMessageCallback_assign that discards the queued messages when
\* a handler is registered.
setMessageCallback_assign_Drain ==
    /\ pc["caller"] = "setcb_assign"
    /\ messageCallback' = cbArg
    /\ incomingMessages' = IF cbArg # "null" THEN <<>> ELSE incomingMessages
    /\ messageMutex' = "free"
    /\ cbArg' = "null"
    /\ Goto("caller", "idle")
    /\ UNCHANGED <<harnessVars,
                   clientVars, cur, cbSeen, routed, sendVars, transportVars, cret>>

\* SignalingClient::setMessageCallback, lines 113-114: assign, release the lock.
setMessageCallback_assign ==
    /\ pc["caller"] = "setcb_assign"
    /\ messageCallback' = cbArg
    /\ messageMutex' = "free"
    /\ cbArg' = "null"
    /\ Goto("caller", "idle")
    /\ UNCHANGED <<harnessVars,
                   clientVars, incomingMessages, cur, cbSeen, routed, sendVars,
                   transportVars, cret>>

\* -------------------------------------------------- sendMessage (any thread)
\* int n < size_t length: n is converted to size_t before the comparison.
ToSizeT(n) == n % SizeModulus
WriteIncomplete(n, length) == ToSizeT(n) < length

CallerWrites == Len(SelectSeq(writeLog, LAMBDA w : w.by = "caller"))

\* The caller thread calls sendMessage(message).
sendMessage(message) ==
    /\ pc["caller"] = "idle"
    /\ CallerWrites < MaxSends
    /\ snd' = [snd EXCEPT !["caller"] = [NoSend EXCEPT !.msg = message]]
    /\ Goto("caller", "send_check")
    /\ UNCHANGED <<harnessVars,
                   clientVars, dispatchVars, writeLog, transportVars, cret, cbArg>>

\* Variant of sendMessage_check without the test of connected.
sendMessage_check_NoGuard(t) ==
    /\ pc[t] = "send_check"
    /\ Goto(t, "send_write")
    /\ UNCHANGED <<harnessVars,
                   clientVars, dispatchVars, sendVars, transportVars, cret, cbArg>>

\* SignalingClient::sendMessage, lines 88-90: the connected check, which throws.
sendMessage_check(t) ==
    /\ pc[t] = "send_check"
    /\ IF ~connected
       THEN /\ snd' = [snd EXCEPT ![t].out = "NotConnectedError"]
            /\ Goto(t, "send_done")
       ELSE /\ UNCHANGED snd
            /\ Goto(t, "send_write")
    /\ UNCHANGED <<harnessVars,
                   clientVars, dispatchVars, writeLog, transportVars, cret, cbArg>>

\* SignalingClient::sendMessage, lines 92-102: serialize(), whose text has
\* some length of at least one byte, and lws_write, which returns the number
\* of bytes it took, or -1.
sendMessage_write(t) ==
    /\ pc[t] = "send_write"
    /\ \E length \in 1..MaxMsgLen : \E n \in -1..length :
          snd' = [snd EXCEPT ![t].len = length, ![t].n = n]
    /\ writeLog' = Append(writeLog, [by |-> t, type |-> snd[t].msg.type,
                                     reqId |-> snd[t].msg.reqId])
    /\ Goto(t, "send_ret")
    /\ UNCHANGED <<harnessVars, clientVars, dispatchVars, transportVars, cret, cbArg>>

\* SignalingClient::sendMessage, lines 106-108: throw if n < length.
sendMessage_return(t) ==
    /\ pc[t] = "send_ret"
    /\ snd' = [snd EXCEPT ![t].out = IF WriteIncomplete(snd[t].n, snd[t].len)
                                     THEN "SendIncompleteError"
                                     ELSE "ok"]
    /\ Goto(t, "send_done")
    /\ UNCHANGED <<harnessVars,
                   clientVars, dispatchVars, writeLog, transportVars, cret, cbArg>>

\* The call has ended (snd[t].out says how). On the caller thread control is
\* back with the caller. On the worker thread the call was made by the handler
\* inside processIncomingMessage: the handler returns, or the exception reaches
\* the catch clause (lines 160-164); either way the lock_guard is released and
\* the callback returns to lws_service.
sendMessage_done(t) ==
    /\ pc[t] = "send_done"
    /\ snd' = [snd EXCEPT ![t] = NoSend]
    /\ IF t = "caller"
       THEN /\ Goto(t, "idle")
            /\ UNCHANGED <<messageMutex, cur, cbSeen>>
       ELSE /\ Goto(t, "service")
            /\ messageMutex' = "free"
            /\ cur' = NoMsg
            /\ cbSeen' = "null"
    /\ UNCHANGED <<harnessVars, clientVars, messageCallback, incomingMessages, routed,
                   writeLog, transportVars, cret, cbArg>>

\* ------------------------------------------------ worker thread: event loop
\* Variant of runEventLoop that reconnects by itself when it finds the
\* connection lost.
runEventLoop_Reconnect ==
    /\ pc["worker"] = "loop"
    /\ IF running /\ connected
       THEN /\ Goto("worker", "service")
            /\ UNCHANGED <<connected, wsi, tstate, connectBy>>
       ELSE IF running /\ tstate = "lost"
       THEN /\ wsi' = "handle"
            /\ tstate' = "connecting"
            /\ connectBy' = "worker"
            /\ connected' = TRUE
            /\ Goto("worker", "service")
       ELSE /\ Goto("worker", "done")
            /\ UNCHANGED <<connected, wsi, tstate, connectBy>>
    /\ UNCHANGED <<harnessVars,
                   running, joinable, dispatchVars, sendVars, delivered, cret, cbArg>>

\* SignalingClient::runEventLoop, line 134: the loop condition. The thread
\* function returns when it is false.
runEventLoop ==
    /\ pc["worker"] = "loop"
    /\ IF running /\ connected
       THEN Goto("worker", "service")
       ELSE Goto("worker", "done")
    /\ UNCHANGED <<harnessVars,
                   clientVars, dispatchVars, sendVars, transportVars, cret, cbArg>>

\* lws_service returns (after its bounded wait), the worker sleeps and comes
\* back to the loop condition.
lws_service_return ==
    /\ pc["worker"] = "service"
    /\ Goto("worker", "loop")
    /\ UNCHANGED <<harnessVars,
                   clientVars, dispatchVars, sendVars, transportVars, cret, cbArg>>

\* The transport callbacks. libwebsockets issues them from inside lws_service,
\* that is on the worker thread. client (lines 175-177) is taken to be the
\* SignalingClient that owns the context.
\* callback_signaling, LWS_CALLBACK_CLIENT_ESTABLISHED.
callback_ESTABLISHED ==
    /\ pc["worker"] = "service"
    /\ tstate = "connecting"
    /\ tstate' = "established"
    /\ connected' = TRUE
    /\ UNCHANGED <<harnessVars,
                   running, wsi, joinable, dispatchVars, sendVars, delivered,
                   connectBy, pc, cret, cbArg>>

\* callback_signaling, LWS_CALLBACK_CLIENT_CLOSED.
callback_CLOSED ==
    /\ pc["worker"] = "service"
    /\ tstate = "established"
    /\ tstate' = "lost"
    /\ connected' = FALSE
    /\ UNCHANGED <<harnessVars,
                   running, wsi, joinable, dispatchVars, sendVars, delivered,
                   connectBy, pc, cret, cbArg>>

\* callback_signaling, LWS_CALLBACK_CLIENT_CONNECTION_ERROR.
callback_CONNECTION_ERROR ==
    /\ pc["worker"] = "service"
    /\ tstate = "connecting"
    /\ tstate' = "lost"
    /\ connected' = FALSE
    /\ UNCHANGED <<harnessVars,
                   running, wsi, joinable, dispatchVars, sendVars, delivered,
                   connectBy, pc, cret, cbArg>>

\* -------------------------------------- worker thread: inbound dispatching
\* Variant of processIncomingMessage without the catch clause: the exception
\* of deserialize leaves the thread function and ends the worker.
processIncomingMessage_NoCatch(frame) ==
    /\ pc["worker"] = "service"
    /\ tstate = "established"
    /\ Len(delivered) < MaxFrames
    /\ delivered' = Append(delivered, frame)
    /\ IF deserialize(frame).ok
       THEN /\ cur' = deserialize(frame).msg
            /\ Goto("worker", "proc_lock")
       ELSE /\ UNCHANGED cur
            /\ Goto("worker", "done")
    /\ UNCHANGED <<harnessVars,
                   clientVars, messageCallback, incomingMessages, messageMutex, cbSeen,
                   routed, sendVars, tstate, connectBy, cret, cbArg>>

\* callback_signaling, LWS_CALLBACK_CLIENT_RECEIVE, and
\* SignalingClient::processIncomingMessage, lines 144-148: deserialize the
\* frame; an exception is caught (lines 160-164) and the frame is dropped.
processIncomingMessage(frame) ==
    /\ pc["worker"] = "service"
    /\ tstate = "established"
    /\ Len(delivered) < MaxFrames
    /\ delivered' = Append(delivered, frame)
    /\ IF deserialize(frame).ok
       THEN /\ cur' = deserialize(frame).msg
            /\ Goto("worker", "proc_lock")
       ELSE /\ UNCHANGED <<cur, pc>>
    /\ UNCHANGED <<harnessVars,
                   clientVars, messageCallback, incomingMessages, messageMutex, cbSeen,
                   routed, sendVars, tstate, connectBy,
                   cret, cbArg>>

\* Variant of processIncomingMessage_lock without the lock_guard: the worker
\* does not wait for messageMutex before it tests messageCallback.
processIncomingMessage_lock_NoWait ==
    /\ pc["worker"] = "proc_lock"
    /\ messageMutex' = IF messageMutex = "free" THEN "worker" ELSE messageMutex
    /\ cbSeen' = messageCallback
    /\ Goto("worker", "proc_act")
    /\ UNCHANGED <<harnessVars, clientVars, messageCallback, incomingMessages, cur,
                   routed, sendVars, transportVars, cret, cbArg>>

\* SignalingClient::processIncomingMessage, lines 151-152: take messageMutex
\* and test messageCallback.
processIncomingMessage_lock ==
    /\ pc["worker"] = "proc_lock"
    /\ messageMutex = "free"
    /\ messageMutex' = "worker"
    /\ cbSeen' = messageCallback
    /\ Goto("worker", "proc_act")
    /\ UNCHANGED <<harnessVars,
                   clientVars, messageCallback, incomingMessages, cur, routed,
                   sendVars, transportVars, cret, cbArg>>

\* DeviceManager::handleSignalingMessage: a REQUEST is answered (the handler
\* calls sendMessage); every other type is only logged.
HandlerSends(callback, msg) ==
    callback = "session" /\ msg.type = "SignalingMessageType::REQUEST"

\* Variant of processIncomingMessage_dispatch that puts the message at the
\* front of the queue.
processIncomingMessage_dispatch_PushFront ==
    /\ pc["worker"] = "proc_act"
    /\ IF cbSeen # "null"
       THEN /\ routed' = Append(routed, [to |-> "handler", msg |-> cur])
            /\ UNCHANGED incomingMessages
            /\ IF HandlerSends(cbSeen, cur)
               THEN /\ snd' = [snd EXCEPT !["worker"] =
                                  [NoSend EXCEPT !.msg = handleStreamRequest(cur)]]
                    /\ Goto("worker", "send_check")
                    /\ UNCHANGED <<messageMutex, cur, cbSeen>>
               ELSE /\ Goto("worker", "service")
                    /\ messageMutex' = "free"
                    /\ cur' = NoMsg
                    /\ cbSeen' = "null"
                    /\ UNCHANGED snd
       ELSE /\ incomingMessages' = <<cur>> \o incomingMessages
            /\ routed' = Append(routed, [to |-> "queue", msg |-> cur])
            /\ Goto("worker", "service")
            /\ messageMutex' = "free"
            /\ cur' = NoMsg
            /\ cbSeen' = "null"
            /\ UNCHANGED snd
    /\ UNCHANGED <<harnessVars,
                   clientVars, messageCallback, writeLog, transportVars, cret, cbArg>>

\* SignalingClient::processIncomingMessage, lines 152-158: invoke the callback
\* or push the message; the lock is released when the block is left.
processIncomingMessage_dispatch ==
    /\ pc["worker"] = "proc_act"
    /\ IF cbSeen # "null"
       THEN /\ routed' = Append(routed, [to |-> "handler", msg |-> cur])
            /\ UNCHANGED incomingMessages
            /\ IF HandlerSends(cbSeen, cur)
               THEN /\ snd' = [snd EXCEPT !["worker"] =
                                  [NoSend EXCEPT !.msg = handleStreamRequest(cur)]]
                    /\ Goto("worker", "send_check")
                    /\ UNCHANGED <<messageMutex, cur, cbSeen>>
               ELSE /\ Goto("worker", "service")
                    /\ messageMutex' = "free"
                    /\ cur' = NoMsg
                    /\ cbSeen' = "null"
                    /\ UNCHANGED snd
       ELSE /\ incomingMessages' = Append(incomingMessages, cur)
            /\ routed' = Append(routed, [to |-> "queue", msg |-> cur])
            /\ Goto("worker", "service")
            /\ messageMutex' = "free"
            /\ cur' = NoMsg
            /\ cbSeen' = "null"
            /\ UNCHANGED snd
    /\ UNCHANGED <<harnessVars, clientVars, messageCallback, writeLog, transportVars,
                   cret, cbArg>>

\* ---------------------------------------------------------- specification
Next ==
    \/ connect
    \/ connect_setConnected
    \/ connect_return
    \/ startEventLoop
    \/ startEventLoop_return
    \/ stopEventLoop
    \/ stopEventLoop_join
    \/ disconnect
    \/ disconnect_close
    \/ disconnect_return
    \/ \E callback \in Callbacks : setMessageCallback(callback)
    \/ setMessageCallback_assign
    \/ \E message \in CallerMessages : sendMessage(message)
    \/ \E t \in Threads : sendMessage_check(t)
    \/ \E t \in Threads : sendMessage_write(t)
    \/ \E t \in Threads : sendMessage_return(t)
    \/ \E t \in Threads : sendMessage_done(t)
    \/ runEventLoop
    \/ lws_service_return
    \/ callback_ESTABLISHED
    \/ callback_CLOSED
    \/ callback_CONNECTION_ERROR
    \/ \E frame \in Frames : processIncomingMessage(frame)
    \/ processIncomingMessage_lock
    \/ processIncomingMessage_dispatch

Spec == Init /\ [][Next]_vars

TypeOK ==
    /\ connected \in BOOLEAN /\ running \in BOOLEAN /\ joinable \in BOOLEAN
    /\ wsi \in {"null", "handle"}
    /\ messageCallback \in Callbacks
    /\ messageMutex \in {"free", "caller", "worker"}
    /\ pc["caller"] \in {"idle", "connect_set", "connect_already", "connect_true",
                         "connect_false",
                         "start_ret_running", "start_ret", "stop_join", "disc_close",
                         "disc_ret",
                         "setcb_assign", "send_check", "send_write", "send_ret",
                         "send_done", "terminated"}
    /\ pc["worker"] \in {"none", "loop", "service", "proc_lock", "proc_act",
                         "send_check", "send_write", "send_ret", "send_done",
                         "done"}
    /\ tstate \in {"none", "connecting", "established", "closed", "lost"}
    /\ Len(delivered) <= MaxFrames
    /\ joinable = (pc["worker"] # "none")
    /\ pc["caller"] # "terminated"



\* ------------------------------------------------- main.cpp: DeviceManager
\* The caller thread is main(): it constructs a DeviceManager (which registers
\* handleSignalingMessage as the message callback, lines 33-35), calls
\* initialize() and, when that returned true, run(). session is where main()
\* is; it moves when a call into the SignalingClient returns.
InitSession ==
    /\ connected = FALSE
    /\ running = FALSE
    /\ wsi = "null"
    /\ joinable = FALSE
    /\ messageCallback = "session"
    /\ incomingMessages = <<>>
    /\ messageMutex = "free"
    /\ pc = [t \in Threads |-> IF t = "caller" THEN "idle" ELSE "none"]
    /\ cret = "idle"
    /\ cbArg = "null"
    /\ snd = [t \in Threads |-> NoSend]
    /\ cur = NoMsg
    /\ cbSeen = "null"
    /\ tstate = "none"
    /\ writeLog = <<>>
    /\ delivered = <<>>
    /\ routed = <<>>
    /\ connectBy = "none"
    /\ session = "initialize"
    /\ g_running = TRUE
    /\ codec = NoCodec

\* The caller's part of the state besides pc, left alone when a call returns.
calleeVars == <<clientVars, dispatchVars, sendVars, transportVars, cret, cbArg>>

\* signalHandler: g_running = false. The signal is taken while run() executes.
signalHandler ==
    /\ session \in {"run", "run_heartbeat", "run_sleep"}
    /\ g_running
    /\ g_running' = FALSE
    /\ UNCHANGED <<calleeVars, pc, session, codec>>

\* DeviceManager::initialize, line 40: the call of connect().
initialize_connect ==
    /\ session = "initialize"
    /\ connect

\* Variant of initialize_connect_false that goes on to line 46 although
\* connect() returned false.
initialize_connect_false_Ignored ==
    /\ session = "initialize"
    /\ pc["caller"] = "connect_false"
    /\ session' = "init_start"
    /\ Goto("caller", "idle")
    /\ UNCHANGED <<calleeVars, g_running, codec>>

\* DeviceManager::initialize, lines 40-43: connect() returned false, and
\* initialize() returns false (main then returns 1).
initialize_connect_false ==
    /\ session = "initialize"
    /\ pc["caller"] = "connect_false"
    /\ session' = "init_failed"
    /\ Goto("caller", "idle")
    /\ UNCHANGED <<calleeVars, g_running, codec>>

\* DeviceManager::initialize, line 40: connect() returned true.
initialize_connect_true ==
    /\ session = "initialize"
    /\ pc["caller"] \in {"connect_already", "connect_true"}
    /\ session' = "init_start"
    /\ Goto("caller", "idle")
    /\ UNCHANGED <<calleeVars, g_running, codec>>

\* DeviceManager::initialize, line 46: the call of startEventLoop().
initialize_startEventLoop ==
    /\ session = "init_start"
    /\ startEventLoop

\* DeviceManager::initialize, line 46: startEventLoop() returned.
initialize_started ==
    /\ session = "init_start"
    /\ pc["caller"] \in {"start_ret_running", "start_ret"}
    /\ session' = "init_register"
    /\ Goto("caller", "idle")
    /\ UNCHANGED <<calleeVars, g_running, codec>>

\* DeviceManager::sendRegistration (called at line 49): builds the REGISTER
\* message and calls sendMessage.
sendRegistration ==
    /\ session = "init_register"
    /\ pc["caller"] = "idle"
    /\ snd' = [snd EXCEPT !["caller"] =
                 [NoSend EXCEPT !.msg = [type |-> "SignalingMessageType::REGISTER",
                                         id |-> DeviceId, reqId |-> ""]]]
    /\ Goto("caller", "send_check")
    /\ UNCHANGED <<harnessVars, clientVars, dispatchVars, writeLog, transportVars,
                   cret, cbArg>>

\* sendRegistration's sendMessage call has ended. When it returned,
\* initialize() returns true and main calls run(); when it threw, the
\* exception leaves initialize() and is caught in main (lines 194-197), which
\* returns 1.
sendRegistration_done ==
    /\ session = "init_register"
    /\ pc["caller"] = "send_done"
    /\ session' = IF snd["caller"].out = "ok" THEN "run" ELSE "aborted"
    /\ snd' = [snd EXCEPT !["caller"] = NoSend]
    /\ Goto("caller", "idle")
    /\ UNCHANGED <<clientVars, dispatchVars, writeLog, transportVars, cret, cbArg,
                   g_running, codec>>

\* The HEARTBEAT messages written so far.
Heartbeats ==
    Len(SelectSeq(writeLog, LAMBDA w : w.type = "SignalingMessageType::HEARTBEAT"))

\* DeviceManager::run, line 55: the test of g_running. When it is clear the
\* loop is left for line 64.
run_test ==
    /\ session = "run"
    /\ pc["caller"] = "idle"
    /\ session' = IF g_running THEN "run_heartbeat" ELSE "run_disconnect"
    /\ UNCHANGED <<calleeVars, pc, g_running, codec>>

\* DeviceManager::sendHeartbeat (called at line 57): builds the HEARTBEAT
\* message and calls sendMessage.
sendHeartbeat ==
    /\ session = "run_heartbeat"
    /\ pc["caller"] = "idle"
    /\ Heartbeats < MaxHeartbeats
    /\ snd' = [snd EXCEPT !["caller"] =
                 [NoSend EXCEPT !.msg = [type |-> "SignalingMessageType::HEARTBEAT",
                                         id |-> DeviceId, reqId |-> ""]]]
    /\ Goto("caller", "send_check")
    /\ UNCHANGED <<harnessVars, clientVars, dispatchVars, writeLog, transportVars,
                   cret, cbArg>>

\* sendHeartbeat's sendMessage call has ended. When it returned, run() goes on
\* to the sleep of line 60; when it threw, the exception leaves run() without
\* reaching line 64 and is caught in main (lines 194-197), which returns 1.
sendHeartbeat_done ==
    /\ session = "run_heartbeat"
    /\ pc["caller"] = "send_done"
    /\ session' = IF snd["caller"].out = "ok" THEN "run_sleep" ELSE "aborted"
    /\ snd' = [snd EXCEPT !["caller"] = NoSend]
    /\ Goto("caller", "idle")
    /\ UNCHANGED <<clientVars, dispatchVars, writeLog, transportVars, cret, cbArg,
                   g_running, codec>>

\* DeviceManager::run, line 60: the sleep is over, back to the test of line 55.
run_sleep ==
    /\ session = "run_sleep"
    /\ session' = "run"
    /\ UNCHANGED <<calleeVars, pc, g_running, codec>>

\* DeviceManager::run, line 64: the call of disconnect().
run_disconnect ==
    /\ session = "run_disconnect"
    /\ disconnect

\* DeviceManager::run, lines 64-65: disconnect() returned, and run() returns
\* (main then returns 0).
run_return ==
    /\ session = "run_disconnect"
    /\ pc["caller"] = "disc_ret"
    /\ session' = "shutdown"
    /\ Goto("caller", "idle")
    /\ UNCHANGED <<calleeVars, g_running, codec>>

NextSession ==
    \/ signalHandler
    \/ initialize_connect
    \/ connect_setConnected
    \/ initialize_connect_false
    \/ initialize_connect_true
    \/ initialize_startEventLoop
    \/ initialize_started
    \/ sendRegistration
    \/ sendRegistration_done
    \/ run_test
    \/ sendHeartbeat
    \/ sendHeartbeat_done
    \/ run_sleep
    \/ run_disconnect
    \/ stopEventLoop_join
    \/ disconnect_close
    \/ run_return
    \/ \E t \in Threads : sendMessage_check(t)
    \/ \E t \in Threads : sendMessage_write(t)
    \/ \E t \in Threads : sendMessage_return(t)
    \/ sendMessage_done("worker")
    \/ runEventLoop
    \/ lws_service_return
    \/ callback_ESTABLISHED
    \/ callback_CLOSED
    \/ callback_CONNECTION_ERROR
    \/ \E frame \in Frames : processIncomingMessage(frame)
    \/ processIncomingMessage_lock
    \/ processIncomingMessage_dispatch

SpecSession == InitSession /\ [][NextSession]_vars


\* ------------------------------------------- SignalingProtocol.cpp alone
\* The codec taken alone: a message is serialized, the text is deserialized
\* and the result validated; or a text that came from elsewhere is
\* deserialized and the result validated; or a message is validated as it is.
CodecIds == {"", "a"}
CodecLeaves == {JStr("v"), JNum("1")}
CodecPayloadMembers == {"sdp", "candidate"}
CodecPayloads ==
    {Absent, JNull, JStr("v")} \cup
    UNION {{JObj(members) : members \in [names -> CodecLeaves]} :
              names \in SUBSET CodecPayloadMembers}
CodecMetadataKeys == {"request_id", "version"}
CodecMetadataValues == {"r1", "1.0.0"}
CodecMetadata ==
    UNION {[keys -> CodecMetadataValues] : keys \in SUBSET CodecMetadataKeys}

\* The messages handed to serialize and validate.
CodecMessages ==
    [type : MessageTypes, id : CodecIds, payload : CodecPayloads,
     metadata : CodecMetadata]

\* The texts handed to deserialize that serialize did not write: members
\* missing, of another kind, or with a name that is not a type.
CodecFrames ==
    {FrameGarbage} \cup
    {MkFrame(TRUE, t, i, p, md) :
        t \in {Absent, JNum("1"), JStr("ICE"), JStr("HEARTBEAT"), JStr("BOGUS"),
               JStr("UNKNOWN"), JStr("register")},
        i \in {Absent, JNum("7"), JStr("x"), JStr("")},
        p \in {Absent, JObj([name \in {"candidate"} |-> JStr("v")])},
        md \in {Absent, JStr("m"),
                JObj([name \in {"request_id", "count"} |->
                        IF name = "count" THEN JNum("1") ELSE JStr("r1")])}}

InitCodec ==
    /\ connected = FALSE
    /\ running = FALSE
    /\ wsi = "null"
    /\ joinable = FALSE
    /\ messageCallback = "null"
    /\ incomingMessages = <<>>
    /\ messageMutex = "free"
    /\ pc = [t \in Threads |-> IF t = "caller" THEN "idle" ELSE "none"]
    /\ cret = "idle"
    /\ cbArg = "null"
    /\ snd = [t \in Threads |-> NoSend]
    /\ cur = NoMsg
    /\ cbSeen = "null"
    /\ tstate = "none"
    /\ writeLog = <<>>
    /\ delivered = <<>>
    /\ routed = <<>>
    /\ connectBy = "none"
    /\ session = "none"
    /\ g_running = TRUE
    /\ \/ \E m \in CodecMessages :
             codec = [NoCodec EXCEPT !.stage = "message", !.msg = m]
       \/ \E frame \in CodecFrames :
             codec = [NoCodec EXCEPT !.stage = "text", !.wire = frame]

\* SignalingMessage::serialize applied to the message.
codec_serialize ==
    /\ codec.stage = "message"
    /\ codec' = [codec EXCEPT !.stage = "encoded", !.wire = serialize(codec.msg)]
    /\ UNCHANGED <<calleeVars, pc, session, g_running>>

\* SignalingMessage::deserialize applied to the text: of serialize
\* ("encoded") or from elsewhere ("text").
codec_deserialize ==
    /\ codec.stage \in {"encoded", "text"}
    /\ codec' = [codec EXCEPT
                   !.stage = IF codec.stage = "encoded" THEN "roundtrip" ELSE "parsed",
                   !.ok = deserialize(codec.wire).ok,
                   !.out = deserialize(codec.wire).msg]
    /\ UNCHANGED <<calleeVars, pc, session, g_running>>

\* SignalingMessage::validate applied to a message as constructed, or to the
\* message deserialize returned.
codec_validate ==
    /\ \/ /\ codec.stage = "message"
          /\ codec' = [codec EXCEPT !.stage = "checked",
                                    !.valid = validate(codec.msg)]
       \/ /\ codec.stage \in {"roundtrip", "parsed"}
          /\ codec.ok
          /\ codec' = [codec EXCEPT !.stage = "decoded_checked",
                                    !.valid = validate(codec.out)]
    /\ UNCHANGED <<calleeVars, pc, session, g_running>>

NextCodec ==
    \/ codec_serialize
    \/ codec_deserialize
    \/ codec_validate

SpecCodec == InitCodec /\ [][NextCodec]_vars

\* ------------------------------------------------------------------ claims

\* C1: a sendMessage call that finds connected false ends with NotConnectedError
\* and makes no transport write: neither the step that tests connected nor the
\* step that ends the failed call changes the log of lws_write calls, and the
\* call never reaches lws_write.
C1_SendGuard ==
    [][\A t \in Threads :
         /\ (pc[t] = "send_check" /\ pc'[t] # "send_check" /\ ~connected)
               => /\ pc'[t] = "send_done"
                  /\ snd'[t].out = "NotConnectedError"
                  /\ writeLog' = writeLog
         /\ (pc[t] = "send_done" /\ pc'[t] # "send_done"
                /\ snd[t].out = "NotConnectedError")
               => /\ writeLog' = writeLog
                  /\ pc'[t] \notin {"send_write", "send_ret"}]_vars

\* C1 happens: a call on the caller thread has failed with NotConnectedError
\* while a connection handle exists (the transport has reported the loss).
C1_Witness ==
    /\ pc["caller"] = "send_done"
    /\ snd["caller"].out = "NotConnectedError"
    /\ wsi = "handle"

\* C2 (as claimed): isConnected() is true only once the transport has reported
\* establishment; a successful connect() leaves the state at Connecting.
C2_ConnectedOnlyAfterEstablished == connected => tstate = "established"


\* C3 (as claimed): when a call to disconnect() returns, the worker thread
\* has stopped and been joined, the handle is closed (wsi is null) and the state
\* is Disconnected; and the close of the handle is requested only once the
\* worker has stopped.
C3_DisconnectReturns ==
    /\ pc["caller"] = "disc_ret"
          => (pc["worker"] = "none" /\ ~joinable /\ wsi = "null" /\ ~connected)
    /\ pc["caller"] = "disc_close" => pc["worker"] = "none"

\* The event loop is Stopped: stopEventLoop has cleared running and joined the
\* worker, and startEventLoop has not run since (or has never run).
EventLoopStopped == ~running /\ ~joinable

\* C4: while the event loop is Stopped no transport callback runs and nothing
\* is dispatched: no frame is handed to processIncomingMessage, no handler is
\* invoked, nothing is pushed on the queue, the worker takes no step, and the
\* transport state is not moved by a callback (establishment or loss).
C4_NoCallbackAfterStop ==
    [][(EventLoopStopped /\ EventLoopStopped')
          => /\ delivered' = delivered
             /\ routed' = routed
             /\ incomingMessages' = incomingMessages
             /\ pc'["worker"] = pc["worker"]
             /\ (tstate' # tstate => tstate' \in {"connecting", "none", "closed"})]_vars

\* C4 happens: stopEventLoop has returned after the worker had dispatched a
\* frame, and the established transport could deliver more.
C4_Witness ==
    /\ EventLoopStopped
    /\ pc["caller"] = "idle"
    /\ tstate = "established"
    /\ Len(routed) >= 1
    /\ Len(delivered) < MaxFrames

\* C5 (as claimed): a sendMessage call whose lws_write returned fewer bytes than
\* were submitted, a negative count included, ends with SendIncompleteError.
C5_IncompleteWriteFails ==
    \A t \in Threads :
        (pc[t] = "send_done" /\ snd[t].n < snd[t].len)
            => snd[t].out = "SendIncompleteError"


\* The messages of the frames that decode, in the order of the frames.
RECURSIVE Decoded(_)
Decoded(frames) ==
    IF frames = <<>> THEN <<>>
    ELSE IF deserialize(Head(frames)).ok
    THEN <<deserialize(Head(frames)).msg>> \o Decoded(Tail(frames))
    ELSE Decoded(Tail(frames))

\* The messages dispatched so far, and those of them that went to the queue.
RoutedMessages == [i \in 1..Len(routed) |-> routed[i].msg]
RoutedToQueue ==
    LET q == SelectSeq(routed, LAMBDA r : r.to = "queue")
    IN [i \in 1..Len(q) |-> q[i].msg]

\* The message the worker has decoded and not yet dispatched.
InFlight == IF pc["worker"] \in {"proc_lock", "proc_act"} THEN <<cur>> ELSE <<>>

\* C6: the messages dispatched, followed by the one in progress, are the
\* messages of the decodable frames in the order the transport delivered them,
\* and the queue holds, in dispatch order, exactly those that were dispatched
\* to it: nothing is reordered, merged or lost.
C6_InboundOrder ==
    /\ RoutedMessages \o InFlight = Decoded(delivered)
    /\ incomingMessages = RoutedToQueue

\* C6 happens: with no handler registered two different frames were delivered
\* and the queue holds their two messages in delivery order.
C6_Witness ==
    /\ messageCallback = "null"
    /\ Len(delivered) >= 2
    /\ Len(incomingMessages) = 2
    /\ incomingMessages[1] # incomingMessages[2]
    /\ incomingMessages = Decoded(delivered)

\* C7: setMessageCallback leaves the queue as it is, and while a handler is
\* registered the queue does not change: a message dispatched then goes to the
\* handler.
C7_HandlerPrecedence ==
    [][/\ (messageCallback' # messageCallback => incomingMessages' = incomingMessages)
       /\ (pc["caller"] = "setcb_assign" /\ pc'["caller"] # "setcb_assign"
              => incomingMessages' = incomingMessages)
       /\ (messageCallback # "null" => incomingMessages' = incomingMessages)
       /\ (messageCallback # "null" /\ Len(routed') > Len(routed)
              => routed'[Len(routed')].to = "handler")]_vars

\* C7 happens: a message was queued, then a handler was registered, then a
\* later message went to the handler, and the queue still holds the first.
C7_Witness ==
    /\ messageCallback # "null"
    /\ Len(routed) = 2
    /\ routed[1].to = "queue"
    /\ routed[2].to = "handler"
    /\ incomingMessages = <<routed[1].msg>>

\* C8: the step that dispatches a decoded message gives it to exactly one
\* destination: to the handler, and not the queue, if messageCallback is set at
\* that moment, and else to the queue.
C8_ExactlyOneDestination ==
    [][(pc["worker"] = "proc_act" /\ pc'["worker"] # "proc_act")
          => /\ Len(routed') = Len(routed) + 1
             /\ SubSeq(routed', 1, Len(routed)) = routed
             /\ routed'[Len(routed')].msg = cur
             /\ IF messageCallback # "null"
                THEN /\ routed'[Len(routed')].to = "handler"
                     /\ incomingMessages' = incomingMessages
                ELSE /\ routed'[Len(routed')].to = "queue"
                     /\ incomingMessages' = Append(incomingMessages, cur)]_vars

\* C8 happens: one message went to the queue and another to the handler.
C8_Witness ==
    /\ \E i \in 1..Len(routed) : routed[i].to = "queue"
    /\ \E i \in 1..Len(routed) : routed[i].to = "handler"
    /\ pc["worker"] = "service"

\* C9: the delivery of a frame that does not decode changes nothing but the
\* record of delivered frames: no handler call, no push, no change of the
\* connection state or of running, the lock is not held on, and the worker
\* stays inside lws_service, ready for the next frame.
C9_BadFrameDropped ==
    [][(Len(delivered') > Len(delivered) /\ ~deserialize(delivered'[Len(delivered')]).ok)
          => /\ routed' = routed
             /\ incomingMessages' = incomingMessages
             /\ writeLog' = writeLog
             /\ connected' = connected
             /\ running' = running
             /\ tstate' = tstate
             /\ messageMutex' = messageMutex
             /\ pc["worker"] = "service"
             /\ pc'["worker"] = "service"]_vars

\* C9 happens: a frame that does not decode was delivered, and the frame
\* delivered after it was dispatched.
C9_Witness ==
    /\ Len(delivered) = 2
    /\ ~deserialize(delivered[1]).ok
    /\ deserialize(delivered[2]).ok
    /\ RoutedMessages = <<deserialize(delivered[2]).msg>>

\* C10: only the caller thread's connect() makes a connection attempt, and once
\* the transport has reported closure or an error the connection leaves that
\* state, and connected becomes true again, only by a step of connect().
C10_NoAutoReconnect ==
    [][/\ connectBy' # "worker"
       /\ (tstate = "lost" /\ tstate' \in {"connecting", "established"})
             => (pc["caller"] = "idle" /\ pc'["caller"] = "connect_set")
       /\ (tstate = "lost" /\ ~connected /\ connected')
             => (pc["caller"] = "connect_set" /\ pc'["caller"] = "connect_true")]_vars

\* C10 happens: the transport reported the loss, the worker found connected
\* false and returned, and nothing has connected again.
C10_Witness ==
    /\ tstate = "lost"
    /\ ~connected
    /\ running
    /\ pc["worker"] = "done"
    /\ pc["caller"] = "idle"

\* C11: startEventLoop called while running is set changes nothing, and
\* stopEventLoop entered while the event loop is stopped changes nothing; a
\* worker thread is created only when running is clear and no thread object is
\* joinable, and no call assigns a second thread to eventLoopThread while one
\* exists (which would end in std::terminate): at most one worker exists.
C11_AtMostOneWorker ==
    [][/\ pc'["caller"] # "terminated"
       /\ (pc["caller"] = "idle" /\ running /\
             pc'["caller"] \in {"start_ret_running", "start_ret", "terminated"})
             => /\ pc'["caller"] = "start_ret_running"
                /\ UNCHANGED <<clientVars, dispatchVars, sendVars, transportVars>>
                /\ pc'["worker"] = pc["worker"]
       /\ (pc["worker"] = "none" /\ pc'["worker"] # "none")
             => /\ ~running /\ ~joinable
                /\ pc["caller"] = "idle" /\ pc'["caller"] = "start_ret"
       /\ (EventLoopStopped /\ pc["caller"] \in {"idle", "stop_join"} /\
             pc'["caller"] # pc["caller"] /\
             (pc'["caller"] = "stop_join" \/ pc["caller"] = "stop_join"))
             => /\ UNCHANGED <<clientVars, dispatchVars, sendVars, transportVars>>
                /\ pc'["worker"] = pc["worker"]]_vars

\* C11 happens: startEventLoop was called while running was set and returned at
\* once, with the one worker thread still there.
C11_Witness ==
    /\ pc["caller"] = "start_ret_running"
    /\ running
    /\ pc["worker"] \in {"service", "done"}

\* C12: a connect() call that finds connected set returns true at once, makes
\* no connection attempt and changes nothing; a connect() call whose attempt
\* fails returns false (it raises nothing) and the client is not connected
\* while it returns.
C12_ConnectIdempotent ==
    [][/\ (pc["caller"] = "idle" /\ connected /\
             pc'["caller"] \in {"connect_already", "connect_set", "connect_true",
                                "connect_false"})
             => /\ pc'["caller"] = "connect_already"
                /\ UNCHANGED <<clientVars, dispatchVars, sendVars, transportVars>>
       /\ (pc["caller"] = "idle" /\ pc'["caller"] = "connect_already") => connected
       /\ (pc'["caller"] = "connect_false")
             => /\ ~connected'
                /\ tstate' = "none"
                /\ wsi' = "null"]_vars

\* C12 happens: connect() was called on a connected client and is returning
\* true without having made an attempt.
C12_Witness ==
    /\ pc["caller"] = "connect_already"
    /\ connected
    /\ tstate = "established"

\* C13: when connect() returns false, initialize() returns false and the
\* session stays uninitialized: from then on the event loop has not been
\* started (running clear, no worker thread), no sendMessage call is made and
\* nothing has been written to the transport.
C13_FailedConnectLeavesUninitialized ==
    [][/\ (session = "initialize" /\ pc["caller"] = "connect_false" /\
             session' # session)
             => session' = "init_failed"
       /\ (session' = "init_failed")
             => /\ ~running' /\ ~joinable' /\ pc'["worker"] = "none"
                /\ ~connected'
                /\ writeLog' = <<>>
                /\ snd' = [t \in Threads |-> NoSend]
       /\ (session = "init_failed") => (session' = "init_failed")]_vars

\* C13 happens: the connection attempt of initialize() failed and initialize()
\* has returned false.
C13_Witness ==
    /\ session = "init_failed"
    /\ connectBy = "caller"
    /\ tstate = "none"
    /\ pc["caller"] = "idle"

\* C14: once g_running has been cleared while run() executes, run() ends by
\* leaving its loop and calling disconnect(): whenever main() has come to its
\* end after the signal, run() has returned from disconnect() and the client
\* is disconnected (connected clear, the worker thread joined, the handle
\* forgotten).
C14_ShutdownDisconnects ==
    (~g_running /\ session \in {"shutdown", "aborted"})
        => /\ session = "shutdown"
           /\ ~connected

\* The REQUEST messages the session's handler was invoked with, and the
\* lws_write calls made on the worker thread (the handler runs there).
RequestsHandled ==
    SelectSeq(routed, LAMBDA r : r.to = "handler" /\
                                 r.msg.type = "SignalingMessageType::REQUEST")
HandlerWrites == SelectSeq(writeLog, LAMBDA w : w.by = "worker")

\* The handler's sendMessage call that has not reached lws_write yet.
HandlerSendPending ==
    IF pc["worker"] \in {"send_check", "send_write"} THEN 1 ELSE 0

\* C15: the messages the handler has written are, in order, one RESPONSE for
\* each REQUEST it was invoked with, carrying that REQUEST's id as request_id
\* (the REQUEST being handled has its RESPONSE still to come); a handler
\* invocation with a message of another type writes nothing.
C15_OneResponsePerRequest ==
    /\ Len(HandlerWrites) = Len(RequestsHandled) - HandlerSendPending
    /\ \A i \in 1..Len(HandlerWrites) :
          /\ HandlerWrites[i].type = "SignalingMessageType::RESPONSE"
          /\ HandlerWrites[i].reqId = RequestsHandled[i].msg.id

\* C15 happens: the handler was invoked with a REQUEST and with a message of
\* another type, and one RESPONSE has been written.
C15_Witness ==
    /\ Len(RequestsHandled) = 1
    /\ Len(HandlerWrites) = 1
    /\ Len(routed) = 2
    /\ \A i \in 1..2 : routed[i].to = "handler"
    /\ pc["worker"] = "service"

\* C16: for every valid message (any of the 14 types, ids, payload trees and
\* metadata maps of the codec's inputs), deserializing what serialize wrote
\* succeeds and gives a message equal to it in type, id, payload and metadata.
C16_RoundTrip ==
    (codec.stage = "roundtrip" /\ validate(codec.msg))
        => /\ codec.ok
           /\ codec.out.type = codec.msg.type
           /\ codec.out.id = codec.msg.id
           /\ codec.out.payload = codec.msg.payload
           /\ DOMAIN codec.out.metadata = DOMAIN codec.msg.metadata
           /\ \A key \in DOMAIN codec.msg.metadata :
                 codec.out.metadata[key] = codec.msg.metadata[key]

\* C16 happens: a valid message with a payload object and two metadata
\* entries has been serialized and deserialized.
C16_Witness ==
    /\ codec.stage = "roundtrip"
    /\ validate(codec.msg)
    /\ codec.msg.type = "SignalingMessageType::OFFER"
    /\ DOMAIN codec.msg.metadata = CodecMetadataKeys
    /\ codec.out = codec.msg

\* A payload with a string member of that name.
HasStringField(payload, name) ==
    /\ payload.k = "obj"
    /\ name \in DOMAIN payload.m
    /\ payload.m[name].k = "str"

\* C17: validate() is false for the empty id whatever the type; with a
\* non-empty id it is true for REGISTER, REQUEST and ERROR exactly when a
\* payload is present, for OFFER and ANSWER exactly when the payload has a
\* string field sdp, for ICE exactly when the payload has a string field
\* candidate, and true for HEARTBEAT and every other type with or without a
\* payload.
C17_ValidateTable ==
    (codec.stage = "checked")
        => LET m == codec.msg
           IN  codec.valid =
                 IF m.id = "" THEN FALSE
                 ELSE IF m.type \in {"SignalingMessageType::REGISTER",
                                     "SignalingMessageType::REQUEST",
                                     "SignalingMessageType::ERROR"}
                 THEN m.payload.k # "absent"
                 ELSE IF m.type \in {"SignalingMessageType::OFFER",
                                     "SignalingMessageType::ANSWER"}
                 THEN HasStringField(m.payload, "sdp")
                 ELSE IF m.type = "SignalingMessageType::ICE"
                 THEN HasStringField(m.payload, "candidate")
                 ELSE TRUE

\* C17 happens: validate() has rejected an OFFER with a non-empty id whose
\* payload has a member sdp that is not a string.
C17_Witness ==
    /\ codec.stage = "checked"
    /\ codec.msg.type = "SignalingMessageType::OFFER"
    /\ codec.msg.id # ""
    /\ codec.msg.payload.k = "obj"
    /\ "sdp" \in DOMAIN codec.msg.payload.m
    /\ ~codec.valid

\* C18: deserialize fails for a text that is not JSON, that lacks "type", whose
\* "type" is not a string or not one of the 14 names, that lacks "id" or whose
\* "id" is not a string, and succeeds for every other text, with the type and
\* id the text names and the payload it has: a missing payload or metadata
\* does not make it fail, and a message so decoded can fail validate() (an
\* ICE without payload does).
C18_DecodeRejects ==
    /\ (codec.stage \in {"parsed", "decoded_checked"} /\ codec.wire \in CodecFrames)
          => /\ codec.ok = (/\ codec.wire.json
                            /\ codec.wire.type.k = "str"
                            /\ codec.wire.type.v \in TypeNames
                            /\ codec.wire.id.k = "str")
             /\ codec.ok
                   => /\ signalingMessageTypeToString(codec.out.type)
                          = codec.wire.type.v
                      /\ codec.out.id = codec.wire.id.v
                      /\ codec.out.payload = codec.wire.payload
    /\ (codec.stage = "decoded_checked" /\
         codec.out.type = "SignalingMessageType::ICE" /\
         codec.wire.payload = Absent)
          => ~codec.valid

\* C18 happens: an ICE text with an id and no payload was deserialized, and
\* validate() has rejected the message.
C18_Witness ==
    /\ codec.stage = "decoded_checked"
    /\ codec.wire \in CodecFrames
    /\ codec.wire.type = JStr("ICE")
    /\ codec.wire.id = JStr("x")
    /\ codec.wire.payload = Absent
    /\ codec.wire.metadata = Absent
    /\ codec.ok
    /\ ~codec.valid

\* The worker is between taking messageMutex and leaving the block it guards:
\* it is about to invoke the handler or push to the queue, or the handler it
\* invoked is running (the handler's sendMessage call).
WorkerDispatching ==
    pc["worker"] \in {"proc_act", "send_check", "send_write", "send_ret", "send_done"}

\* C19: the caller thread is assigning messageCallback only while it holds
\* messageMutex, the worker is invoking the handler or pushing to the queue
\* only while it holds messageMutex, so the two never overlap; and the worker
\* holds messageMutex at no other time: it is released when the dispatch is
\* over, also when the handler's sendMessage call threw, and it is not held
\* when deserialize threw.
C19_DispatchExclusive ==
    /\ (pc["caller"] = "setcb_assign") = (messageMutex = "caller")
    /\ WorkerDispatching = (messageMutex = "worker")
    /\ ~(pc["caller"] = "setcb_assign" /\ WorkerDispatching)

\* C19 happens: the caller thread holds messageMutex inside
\* setMessageCallback while the worker, with a decoded message, waits for it,
\* after an earlier dispatch whose handler made a sendMessage call.
C19_Witness ==
    /\ pc["caller"] = "setcb_assign"
    /\ messageMutex = "caller"
    /\ pc["worker"] = "proc_lock"
    /\ Len(routed) = 1
    /\ Len(HandlerWrites) = 1

\* The worker thread is executing runEventLoop (it has not returned from it).
WorkerAlive == pc["worker"] \notin {"none", "done"}

\* C20: outside a stopEventLoop call in progress, running is set exactly when
\* a worker thread is alive: once started, the worker leaves runEventLoop only
\* after stopEventLoop has cleared running.
C20_RunningIffWorkerAlive ==
    (pc["caller"] # "stop_join") => (running = WorkerAlive)

\* C21: after the transport reported a closure or an error on a connection
\* that was being serviced, a connect() that succeeds followed by
\* startEventLoop() leaves a worker thread alive: whenever startEventLoop is
\* returning on a client that is connected again after frames had been
\* delivered, a worker is executing runEventLoop.
C21_RecoveryAfterLoss ==
    (/\ pc["caller"] \in {"start_ret_running", "start_ret"}
     /\ connected
     /\ tstate = "connecting"
     /\ delivered # <<>>)
        => WorkerAlive

\* C22: no two threads are inside the transport write of sendMessage (past
\* the test of connected, at serialize and lws_write) at the same time: a
\* REGISTER or HEARTBEAT send of the caller thread never overlaps a RESPONSE
\* send the handler makes on the worker thread.
C22_WritesSerialized ==
    ~(pc["caller"] = "send_write" /\ pc["worker"] = "send_write")

\* C23: every lws_write call of sendMessage is made while connected is set:
\* the worker never clears connected between a sendMessage call's test of
\* connected and its lws_write.
C23_WriteWhileConnected ==
    [][(writeLog' # writeLog) => connected]_vars

\* C24: the first message a session writes to the transport is REGISTER: no
\* RESPONSE of the handler and no HEARTBEAT is written before it.
C24_RegisterFirst ==
    (writeLog # <<>>) => (writeLog[1].type = "SignalingMessageType::REGISTER")

====
